---- MODULE Spec2Model ----
(***************************************************************************)
(* Student Manager (Assessment_1/03_student_manager.py): the in-memory     *)
(* roster, the studentMarks.txt text file and the menu handlers that work  *)
(* on them.  Text is modelled as a sequence of one-character strings, so   *)
(* that formatting and parsing are computed as the program computes them.  *)
(***************************************************************************)
EXTENDS Integers, Sequences, FiniteSets, TLC

(* ------------------------------ bounds -------------------------------- *)

\* The add handler is not offered once the roster holds this many records.
MaxStudents == 3

(* --------------------------- text primitives -------------------------- *)

NL == "\n"

Digits == <<"0", "1", "2", "3", "4", "5", "6", "7", "8", "9">>

IsDigitChar(c) == \E d \in 1..10 : Digits[d] = c

DigitVal(c) == (CHOOSE d \in 1..10 : Digits[d] = c) - 1

\* str.isspace for the characters of the model's alphabet
IsSpace(c) == c \in {" ", NL}

\* str.strip(): drop leading and trailing whitespace
RECURSIVE lstrip(_)
lstrip(t) == IF t # <<>> /\ IsSpace(Head(t)) THEN lstrip(Tail(t)) ELSE t

RECURSIVE rstrip(_)
rstrip(t) ==
    IF t # <<>> /\ IsSpace(t[Len(t)]) THEN rstrip(SubSeq(t, 1, Len(t) - 1)) ELSE t

strip(t) == rstrip(lstrip(t))

UpperLetters == <<"A", "B", "C", "D", "E", "F", "G", "H", "I", "J", "K", "L", "M",
                  "N", "O", "P", "Q", "R", "S", "T", "U", "V", "W", "X", "Y", "Z">>

LowerLetters == <<"a", "b", "c", "d", "e", "f", "g", "h", "i", "j", "k", "l", "m",
                  "n", "o", "p", "q", "r", "s", "t", "u", "v", "w", "x", "y", "z">>

\* str.lower() on the upper-case letters
LowerOf ==
    [u \in {UpperLetters[k] : k \in 1..26} |->
        LowerLetters[CHOOSE k \in 1..26 : UpperLetters[k] = u]]

\* str.lower(), one character of it
LowerChar(c) == IF c \in DOMAIN LowerOf THEN LowerOf[c] ELSE c

lower(t) == [i \in 1..Len(t) |-> LowerChar(t[i])]

\* str.isdigit(): non-empty and every character a digit
isdigit(t) == t # <<>> /\ \A i \in 1..Len(t) : IsDigitChar(t[i])

\* str.split(sep) for a one-character separator: always at least one field
RECURSIVE split(_, _)
split(t, sep) ==
    IF \A i \in 1..Len(t) : t[i] # sep
    THEN <<t>>
    ELSE LET k == CHOOSE i \in 1..Len(t) :
                      t[i] = sep /\ \A j \in 1..(i - 1) : t[j] # sep
         IN  <<SubSeq(t, 1, k - 1)>> \o split(SubSeq(t, k + 1, Len(t)), sep)

\* str.splitlines(): like split on the line break, but an empty text has no
\* line and a final line break opens no further line
splitlines(t) ==
    IF t = <<>> THEN <<>>
    ELSE IF t[Len(t)] = NL THEN split(SubSeq(t, 1, Len(t) - 1), NL)
    ELSE split(t, NL)

\* sep.join(parts)
RECURSIVE join(_, _)
join(parts, sep) ==
    IF parts = <<>> THEN <<>>
    ELSE IF Len(parts) = 1 THEN parts[1]
    ELSE parts[1] \o <<sep>> \o join(Tail(parts), sep)

\* "needle in hay" for strings
contains(hay, needle) ==
    \E i \in 1..(Len(hay) - Len(needle) + 1) :
        SubSeq(hay, i, i + Len(needle) - 1) = needle

\* str(n) for an int
RECURSIVE strNat(_)
strNat(n) == IF n < 10 THEN <<Digits[n + 1]>>
             ELSE strNat(n \div 10) \o <<Digits[(n % 10) + 1]>>

str(n) == IF n < 0 THEN <<"-">> \o strNat(-n) ELSE strNat(n)

\* int(text): text is an optional sign followed by digits (surrounding
\* whitespace allowed); anything else raises ValueError
IsIntText(t) ==
    LET u == strip(t)
    IN  /\ u # <<>>
        /\ IF Head(u) \in {"-", "+"} THEN isdigit(Tail(u)) ELSE isdigit(u)

RECURSIVE natOf(_)
natOf(t) == IF t = <<>> THEN 0
            ELSE natOf(SubSeq(t, 1, Len(t) - 1)) * 10 + DigitVal(t[Len(t)])

int(t) ==
    LET u == strip(t)
    IN  IF Head(u) = "-" THEN -natOf(Tail(u))
        ELSE IF Head(u) = "+" THEN natOf(Tail(u))
        ELSE natOf(u)

(* ------------------------------ Student ------------------------------- *)

Student(code, name, c1, c2, c3, ex) ==
    [code |-> code, name |-> name, cw1 |-> c1, cw2 |-> c2, cw3 |-> c3, exam |-> ex]

cw_total(s) == s.cw1 + s.cw2 + s.cw3

total(s) == cw_total(s) + s.exam

\* percent = total / 160 * 100: kept exact as a numerator over PercentDen
PercentDen == 160

percent(s) == total(s) * 100

(* ------------------------------ file I/O ------------------------------ *)

\* one line of the file, as load_students treats it: the records it adds
parse_line(i, raw) ==
    LET line   == strip(raw)
        fields == split(line, ",")
        parts  == [k \in 1..Len(fields) |-> strip(fields[k])]
    IN  IF line = <<>> THEN <<>>
        ELSE IF i = 0 /\ isdigit(line) /\ ~contains(line, <<",">>) THEN <<>>
        ELSE IF Len(parts) # 6 THEN <<>>
        ELSE IF ~(/\ IsIntText(parts[1]) /\ IsIntText(parts[3]) /\ IsIntText(parts[4])
                  /\ IsIntText(parts[5]) /\ IsIntText(parts[6])) THEN <<>>
        ELSE <<Student(int(parts[1]), parts[2], int(parts[3]), int(parts[4]),
                       int(parts[5]), int(parts[6]))>>

\* load_lines giving up at the first line after the count line that adds
\* no record
RECURSIVE load_lines_stop_at_bad(_, _)
load_lines_stop_at_bad(lines, i) ==
    IF lines = <<>> THEN <<>>
    ELSE IF i > 0 /\ parse_line(i, Head(lines)) = <<>> THEN <<>>
    ELSE parse_line(i, Head(lines)) \o load_lines_stop_at_bad(Tail(lines), i + 1)

RECURSIVE load_lines(_, _)
load_lines(lines, i) ==
    IF lines = <<>> THEN <<>>
    ELSE parse_line(i, Head(lines)) \o load_lines(Tail(lines), i + 1)

\* load_students making up a first record when there is no file
load_students_default_row(exists_, text) ==
    IF ~exists_ THEN <<Student(1000, <<"A", "l">>, 0, 0, 0, 0)>>
    ELSE load_lines(splitlines(text), 0)

\* exists_: does studentMarks.txt exist; text: what it holds
load_students(exists_, text) ==
    IF ~exists_ THEN <<>> ELSE load_lines(splitlines(text), 0)

\* format_line with the two first coursework marks in each other's place
format_line_swapped(s) ==
    join(<<str(s.code), s.name, str(s.cw2), str(s.cw1), str(s.cw3), str(s.exam)>>, ",")

format_line(s) ==
    join(<<str(s.code), s.name, str(s.cw1), str(s.cw2), str(s.cw3), str(s.exam)>>, ",")

\* save_students without the leading count line
save_students_no_count(students_) ==
    join([i \in 1..Len(students_) |-> format_line(students_[i])], NL)

save_students(students_) ==
    join(<<str(Len(students_))>> \o [i \in 1..Len(students_) |-> format_line(students_[i])],
         NL)

(* ------------------------------- inputs ------------------------------- *)

\* What the user can have typed into the six entries of _edit_dialog when
\* Save is pressed: forms that pass submit's checks ...
ValidForms == {
    <<<<"1", "0", "0", "0">>, <<" ", "A", "l", " ">>, <<"7">>, <<"2", "0">>, <<"0">>, <<"5", "0">>>>,
    <<<<"1", "0", "0", "0">>, <<"B", "o">>, <<"2", "0">>, <<"2", "0">>, <<"2", "0">>, <<"1", "0", "0">>>>,
    <<<<"1", "0", "0", "1">>, <<"a", ",", "b">>, <<"7">>, <<"2", "0">>, <<"0">>, <<"5", "0">>>>,
    <<<<"9", "9", "9", "9">>, <<"x", "1", "0", "0", "0">>, <<"2", "0">>, <<"0">>, <<"7">>, <<"5", "0">>>> }

\* ... and forms that submit rejects, one for each of its checks
InvalidForms == {
    <<<<"9", "9", "9">>, <<"A", "l">>, <<"7">>, <<"2", "0">>, <<"0">>, <<"5", "0">>>>,
    <<<<"1", "0", "0", "0", "0">>, <<"A", "l">>, <<"7">>, <<"2", "0">>, <<"0">>, <<"5", "0">>>>,
    <<<<"x">>, <<"A", "l">>, <<"7">>, <<"2", "0">>, <<"0">>, <<"5", "0">>>>,
    <<<<"1", "0", "0", "0">>, <<" ", " ">>, <<"7">>, <<"2", "0">>, <<"0">>, <<"5", "0">>>>,
    <<<<"1", "0", "0", "0">>, <<"A", "l">>, <<"2", "1">>, <<"2", "0">>, <<"0">>, <<"5", "0">>>>,
    <<<<"1", "0", "0", "0">>, <<"A", "l">>, <<"7">>, <<"-", "1">>, <<"0">>, <<"5", "0">>>>,
    <<<<"1", "0", "0", "0">>, <<"A", "l">>, <<"7">>, <<"2", "0">>, <<>>, <<"5", "0">>>>,
    <<<<"1", "0", "0", "0">>, <<"A", "l">>, <<"7">>, <<"2", "0">>, <<"0">>, <<"1", "0", "1">>>> }

Forms == ValidForms \cup InvalidForms

\* What the user can type into view_individual's "Find Student" prompt
Queries == { <<>>, <<"1", "0", "0", "0">>, <<"9", "9", "9", "9">>, <<" ", "A", "L">>, <<"b">>, <<"z", "z">> }

\* Lines a studentMarks.txt can hold besides well-formed records
BlankLine == <<" ">>
ShortLine == <<"1", "0", "0", "1", ",", "B", "o", ",", "7", ",", "2", "0">>
BadIntLine == <<"1", "0", "0", "1", ",", "A", "l", ",", "7", ",", "x", ",", "0", ",", "1", "0", "0">>
PaddedLine == <<" ", "1", "0", "0", "1", " ", ",", " ", "A", "l", ",", " ", "7", ",", "2", "0", ",", "0", ",", " ", "1", "0", "0", " ">>

\* a line that parses, holding numbers no dialog would accept
OutOfRangeLine == <<"5", ",", "B", "o", ",", "2", "1", ",", "0", ",", "0", ",", "1", "0", "1">>

\* The studentMarks.txt files a session can start from
InitFiles == {
    <<str(0)>>,
    <<str(2), format_line(Student(1000, <<"A", "l">>, 7, 20, 0, 50)),
              format_line(Student(1001, <<"A", "l">>, 7, 20, 0, 100))>>,
    <<str(2), OutOfRangeLine,
              BlankLine, ShortLine,
              format_line(Student(1000, <<"B", "o">>, 20, 20, 20, 100)),
              BadIntLine, PaddedLine>>,
    <<str(3), format_line(Student(1000, <<"A", "l">>, 7, 20, 0, 50)),
              format_line(Student(9999, <<"B", "o">>, 0, 0, 0, 0)),
              format_line(Student(1000, <<"B", "o">>, 20, 20, 20, 100))>> }

(* ----------------------------- the dialogs ---------------------------- *)

\* _edit_dialog's submit on the six entry texts: <<>> when a check fails
\* (an error box is shown and nothing is returned), else <<Student>>
submit(form) ==
    IF ~(/\ IsIntText(form[1]) /\ IsIntText(form[3]) /\ IsIntText(form[4])
         /\ IsIntText(form[5]) /\ IsIntText(form[6])) THEN <<>>
    ELSE LET code == int(form[1])
             name == strip(form[2])
             c1   == int(form[3])
             c2   == int(form[4])
             c3   == int(form[5])
             ex   == int(form[6])
         IN  IF ~(1000 <= code /\ code <= 9999) THEN <<>>
             ELSE IF name = <<>> THEN <<>>
             ELSE IF ~(0 <= c1 /\ c1 <= 20) THEN <<>>
             ELSE IF ~(0 <= c2 /\ c2 <= 20) THEN <<>>
             ELSE IF ~(0 <= c3 /\ c3 <= 20) THEN <<>>
             ELSE IF ~(0 <= ex /\ ex <= 100) THEN <<>>
             ELSE <<Student(code, name, c1, c2, c3, ex)>>

\* what submit gives for each of the forms
SubmitOf == [form \in Forms |-> submit(form)]

\* the form <<>> stands for pressing Cancel; a form that submit rejects
\* leaves the dialog open, and it is then closed with Cancel
_edit_dialog(form) == IF form = <<>> THEN <<>> ELSE SubmitOf[form]

\* _choose_from_list: pick is the row chosen before OK, 0 for Cancel
_choose_from_list(options, pick) ==
    IF pick \in 1..Len(options) THEN <<options[pick]>> ELSE <<>>

(* ------------------------- roster computations ------------------------ *)

\* has_code looking at the last record only
has_code_last_only(students_, code) ==
    students_ # <<>> /\ students_[Len(students_)].code = code

\* has_code that finds nothing
has_code_never(students_, code) == FALSE

\* any(st.code == code for st in students)
has_code(students_, code) == \E i \in 1..Len(students_) : students_[i].code = code

\* view_individual's scan: a code match replaces what was found and stops
RECURSIVE find_loop(_, _, _)
find_loop(rest, query, found) ==
    IF rest = <<>> THEN found
    ELSE LET s == Head(rest)
         IN  IF isdigit(query) /\ int(query) = s.code THEN <<s>>
             ELSE find_loop(Tail(rest), query,
                            IF contains(lower(s.name), query)
                            THEN Append(found, s) ELSE found)

find_students(students_, raw) == find_loop(students_, lower(strip(raw)), <<>>)

\* highest keeping the last best instead of the first
highest_last(students_) ==
    students_[CHOOSE i \in 1..Len(students_) :
        /\ \A j \in 1..Len(students_) : total(students_[j]) <= total(students_[i])
        /\ \A j \in (i + 1)..Len(students_) : total(students_[j]) < total(students_[i])]

\* max(students, key=total) and min(students, key=total): the first best
highest(students_) ==
    students_[CHOOSE i \in 1..Len(students_) :
        /\ \A j \in 1..Len(students_) : total(students_[j]) <= total(students_[i])
        /\ \A j \in 1..(i - 1) : total(students_[j]) < total(students_[i])]

lowest(students_) ==
    students_[CHOOSE i \in 1..Len(students_) :
        /\ \A j \in 1..Len(students_) : total(students_[j]) >= total(students_[i])
        /\ \A j \in 1..(i - 1) : total(students_[j]) > total(students_[i])]

\* sort_insert putting a record before the records of equal percent
RECURSIVE sort_insert_before_equal(_, _, _)
sort_insert_before_equal(sorted, x, reverse) ==
    IF sorted = <<>> THEN <<x>>
    ELSE IF (IF reverse THEN percent(Head(sorted)) <= percent(x)
                        ELSE percent(Head(sorted)) >= percent(x))
         THEN <<x>> \o sorted
         ELSE <<Head(sorted)>> \o sort_insert_before_equal(Tail(sorted), x, reverse)

\* list.sort(key=percent, reverse=...): stable in both directions, equal
\* keys keep the order they had
RECURSIVE sort_insert(_, _, _)
sort_insert(sorted, x, reverse) ==
    IF sorted = <<>> THEN <<x>>
    ELSE IF (IF reverse THEN percent(Head(sorted)) < percent(x)
                        ELSE percent(Head(sorted)) > percent(x))
         THEN <<x>> \o sorted
         ELSE <<Head(sorted)>> \o sort_insert(Tail(sorted), x, reverse)

\* sort_by_percent that sorts ascending and turns the result round for
\* reverse, which turns equal keys round too
RECURSIVE sort_ascending(_)
sort_ascending(students_) ==
    IF students_ = <<>> THEN <<>>
    ELSE sort_insert(sort_ascending(SubSeq(students_, 1, Len(students_) - 1)),
                     students_[Len(students_)], FALSE)

sort_reversed_after(students_, reverse) ==
    LET a == sort_ascending(students_)
    IN  IF reverse THEN [i \in 1..Len(a) |-> a[Len(a) + 1 - i]] ELSE a

RECURSIVE sort_by_percent(_, _)
sort_by_percent(students_, reverse) ==
    IF students_ = <<>> THEN <<>>
    ELSE sort_insert(sort_by_percent(SubSeq(students_, 1, Len(students_) - 1), reverse),
                     students_[Len(students_)], reverse)

\* add_append putting the record first
add_prepend(students_, s) == <<s>> \o students_

\* students.append(s)
add_append(students_, s) == Append(students_, s)

\* delete_filter removing the first record of that code only
delete_first(students_, code) ==
    IF \E i \in 1..Len(students_) : students_[i].code = code
    THEN LET i == CHOOSE k \in 1..Len(students_) :
                      /\ students_[k].code = code
                      /\ \A j \in 1..(k - 1) : students_[j].code # code
         IN  SubSeq(students_, 1, i - 1) \o SubSeq(students_, i + 1, Len(students_))
    ELSE students_

\* [x for x in students if x.code != code]
delete_filter(students_, code) == SelectSeq(students_, LAMBDA x : x.code # code)

\* update_replace taking the old record out and putting the new one last
update_move_to_end(students_, s0, s) ==
    IF \E i \in 1..Len(students_) : students_[i].code = s0.code
    THEN LET i == CHOOSE k \in 1..Len(students_) :
                      /\ students_[k].code = s0.code
                      /\ \A j \in 1..(k - 1) : students_[j].code # s0.code
         IN  SubSeq(students_, 1, i - 1) \o SubSeq(students_, i + 1, Len(students_))
                 \o <<s>>
    ELSE students_

\* for i, st in enumerate(students): if st.code == s0.code: students[i] = s; break
update_replace(students_, s0, s) ==
    IF has_code(students_, s0.code)
    THEN LET i == CHOOSE k \in 1..Len(students_) :
                      /\ students_[k].code = s0.code
                      /\ \A j \in 1..(k - 1) : students_[j].code # s0.code
         IN  [students_ EXCEPT ![i] = s]
    ELSE students_

(* -------------------------------- state ------------------------------- *)

VARIABLES
    students,     \* StudentManagerApp.students: the roster, a list of Student
    file_exists,  \* whether studentMarks.txt exists
    file_text,    \* the text of studentMarks.txt
    table,        \* the Students whose rows the Treeview shows
    op,           \* the menu handler that ran last
    msg,          \* the title of the last message box that handler showed
    sel,          \* row of _choose_from_list that handler acted on (0: none)
    entered,      \* the Student from _edit_dialog it put into the roster, if any
    answer        \* the answer to that handler's askyesno (FALSE when not asked)

vars == <<students, file_exists, file_text, table, op, msg, sel, entered, answer>>

(* ----------------------------- construction --------------------------- *)

\* StudentManagerApp.__init__: the roster is loaded, the table is left empty
Init ==
    /\ \/ /\ file_exists = FALSE
          /\ file_text = <<>>
       \/ /\ file_exists = TRUE
          /\ \E lines \in InitFiles : file_text = join(lines, NL)
    /\ students = load_students(file_exists, file_text)
    /\ table = <<>>
    /\ op = "init"
    /\ msg = IF file_exists THEN "" ELSE "File Missing"
    /\ sel = 0
    /\ entered = <<>>
    /\ answer = FALSE

(* ------------------------------ handlers ------------------------------ *)

Written(students_) ==
    /\ file_exists' = TRUE
    /\ file_text' = save_students(students_)

view_all ==
    /\ table' = students
    /\ op' = "view_all" /\ msg' = "" /\ sel' = 0 /\ entered' = <<>> /\ answer' = FALSE
    /\ UNCHANGED <<students, file_exists, file_text>>

view_individual ==
    \E raw \in Queries :
        LET found == find_students(students, raw)
        IN  \E pick \in IF Len(found) > 1 THEN 0..Len(found) ELSE {0} :
            LET chosen == IF Len(found) = 1 THEN found
                          ELSE _choose_from_list(found, pick)
            IN  /\ op' = "view_individual" /\ entered' = <<>> /\ answer' = FALSE
                /\ sel' = pick
                /\ IF students = <<>>
                   THEN msg' = "No Data" /\ table' = table
                   ELSE IF raw = <<>>
                   THEN msg' = "" /\ table' = table
                   ELSE IF found = <<>>
                   THEN msg' = "Not Found" /\ table' = table
                   ELSE /\ msg' = ""
                        /\ table' = IF chosen = <<>> THEN table ELSE chosen
                /\ UNCHANGED <<students, file_exists, file_text>>

show_highest ==
    /\ table' = IF students = <<>> THEN table ELSE <<highest(students)>>
    /\ op' = "show_highest" /\ msg' = "" /\ sel' = 0 /\ entered' = <<>> /\ answer' = FALSE
    /\ UNCHANGED <<students, file_exists, file_text>>

show_lowest ==
    /\ table' = IF students = <<>> THEN table ELSE <<lowest(students)>>
    /\ op' = "show_lowest" /\ msg' = "" /\ sel' = 0 /\ entered' = <<>> /\ answer' = FALSE
    /\ UNCHANGED <<students, file_exists, file_text>>

sort_records ==
    \E asc \in BOOLEAN :
        /\ op' = "sort" /\ msg' = "" /\ sel' = 0 /\ entered' = <<>>
        /\ IF students = <<>>
           THEN answer' = FALSE /\ UNCHANGED <<students, table>>
           ELSE /\ answer' = asc
                /\ students' = sort_by_percent(students, ~asc)
                /\ table' = students'
        /\ UNCHANGED <<file_exists, file_text>>

add_student ==
    \E form \in Forms \cup {<<>>} :
        LET s == _edit_dialog(form)
        IN  /\ op' = "add" /\ sel' = 0 /\ answer' = FALSE
            /\ IF s = <<>>
               THEN /\ msg' = IF form = <<>> THEN "" ELSE "Invalid"
                    /\ entered' = <<>>
                    /\ UNCHANGED <<students, file_exists, file_text, table>>
               ELSE IF has_code(students, s[1].code)
               THEN /\ msg' = "Duplicate"
                    /\ entered' = <<>>
                    /\ UNCHANGED <<students, file_exists, file_text, table>>
               ELSE /\ Len(students) < MaxStudents
                    /\ entered' = s
                    /\ students' = add_append(students, s[1])
                    /\ Written(students')
                    /\ msg' = "Added"
                    /\ table' = students'

delete_student ==
    \E pick \in 0..Len(students) :
      \E yes \in IF pick = 0 THEN {FALSE} ELSE BOOLEAN :
        LET s == _choose_from_list(students, pick)
        IN  /\ op' = "delete" /\ entered' = <<>> /\ answer' = yes
            /\ IF students = <<>> \/ s = <<>> \/ ~yes
               THEN /\ msg' = "" /\ sel' = 0
                    /\ UNCHANGED <<students, file_exists, file_text, table>>
               ELSE /\ sel' = pick
                    /\ students' = delete_filter(students, s[1].code)
                    /\ Written(students')
                    /\ msg' = "Deleted"
                    /\ table' = students'

update_student ==
    \E pick \in 0..Len(students) :
      \E form \in IF pick = 0 THEN {<<>>} ELSE Forms \cup {<<>>} :
        LET s0 == _choose_from_list(students, pick)
            s  == _edit_dialog(form)
        IN  /\ op' = "update" /\ answer' = FALSE
            /\ IF students = <<>> \/ s0 = <<>>
               THEN /\ msg' = "" /\ sel' = 0 /\ entered' = <<>>
                    /\ UNCHANGED <<students, file_exists, file_text, table>>
               ELSE IF s = <<>>
               THEN /\ msg' = IF form = <<>> THEN "" ELSE "Invalid"
                    /\ sel' = 0 /\ entered' = <<>>
                    /\ UNCHANGED <<students, file_exists, file_text, table>>
               ELSE IF s[1].code # s0[1].code /\ has_code(students, s[1].code)
               THEN /\ msg' = "Duplicate" /\ sel' = 0 /\ entered' = <<>>
                    /\ UNCHANGED <<students, file_exists, file_text, table>>
               ELSE /\ sel' = pick /\ entered' = s
                    /\ students' = update_replace(students, s0[1], s[1])
                    /\ Written(students')
                    /\ msg' = "Updated"
                    /\ table' = students'

(* ====================================================================== *)
(* The grade of a Student (Assessment_1/03_student_manager.py, Student).    *)
(* ====================================================================== *)

\* grade with thresholds that a percent must exceed
grade_strict(s) ==
    IF percent(s) > 70 * PercentDen THEN "A"
    ELSE IF percent(s) > 60 * PercentDen THEN "B"
    ELSE IF percent(s) > 50 * PercentDen THEN "C"
    ELSE IF percent(s) > 40 * PercentDen THEN "D"
    ELSE "F"

\* Student.grade: p = (total / 160) * 100.0 against 70, 60, 50 and 40; total
\* is an integer and the quotient t / 160 * 100.0 is exact at the four totals
\* where it is a threshold, so that p >= k is t * 100 >= k * 160
grade(s) ==
    IF percent(s) >= 70 * PercentDen THEN "A"
    ELSE IF percent(s) >= 60 * PercentDen THEN "B"
    ELSE IF percent(s) >= 50 * PercentDen THEN "C"
    ELSE IF percent(s) >= 40 * PercentDen THEN "D"
    ELSE "F"

\* The Students whose properties are read: every exam mark, with coursework
\* marks that bring every total from 0 to 160 about
GradeInputs ==
    { Student(1001, <<"A", "l", "i", "c", "e">>, c1, c2, c3, ex) :
          c1 \in {0, 18, 20}, c2 \in {0, 19, 20}, c3 \in {0, 20}, ex \in 0..100 }

VARIABLES
    row_student,  \* the Student whose properties are read
    row           \* <<>> before they are read, then <<total, grade>> of it

gvars == <<row_student, row>>

GradeInit ==
    /\ row_student \in GradeInputs
    /\ row = <<>>

\* the properties total and grade of one Student are read, as the table
\* rows, the summary line and the keys of max, min and sort read them
read_properties ==
    /\ row = <<>>
    /\ row' = <<total(row_student), grade(row_student)>>
    /\ UNCHANGED row_student

\* no Student's properties are being read
NoRow ==
    /\ row_student = Student(0, <<>>, 0, 0, 0, 0)
    /\ row = <<>>

(* ====================================================================== *)
(* Maths Quiz (Assessment_1/01_maths_quiz.py): the menu, the run of ten     *)
(* questions with two attempts each, and the results.                      *)
(* ====================================================================== *)

DIFFICULTY_BOUNDS == [l \in {1, 2, 3} |->
    IF l = 1 THEN <<1, 9>> ELSE IF l = 2 THEN <<10, 99>> ELSE <<1000, 9999>>]

TOTAL_QUESTIONS == 10

PTS_FIRST == 10

PTS_SECOND == 5

compute(x, o, y) == IF o = "+" THEN x + y ELSE x - y

\* randomInt: the pairs it can return, the two ends of the level's interval
\* standing for random.randint(lo, hi)
randomInt(l) ==
    LET lo == DIFFICULTY_BOUNDS[l][1]
        hi == DIFFICULTY_BOUNDS[l][2]
    IN  {lo, hi} \X {lo, hi}

decideOperation == {"+", "-"}

\* swap_operands that leaves the operands as they were drawn
swap_operands_never(pair, o, l) == pair

\* next_question's swap: no negative result at Easy and Moderate
swap_operands(pair, o, l) ==
    IF o = "-" /\ l # 3 /\ pair[1] < pair[2] THEN <<pair[2], pair[1]>> ELSE pair

\* next_question's test after q_index += 1, on the new q_index, read as
\* "questions are over" one question early
quiz_over_early(q) == q >= TOTAL_QUESTIONS

\* next_question's test after q_index += 1, on the new q_index
quiz_over(q) == q > TOTAL_QUESTIONS

\* parse_answer reading a text that is no integer as 0
parse_answer_zero(text) ==
    LET txt == strip(text)
    IN  IF txt = <<>> THEN <<0>>
        ELSE IF ~IsIntText(txt) THEN <<0>>
        ELSE <<int(txt)>>

\* submit_answer's reading of the entry: <<>> when it returns early (empty
\* text, or int() raises ValueError), else <<ans>>
parse_answer(text) ==
    LET txt == strip(text)
    IN  IF txt = <<>> THEN <<>>
        ELSE IF ~IsIntText(txt) THEN <<>>
        ELSE <<int(txt)>>

isCorrect(x, o, y, user_answer) == user_answer = compute(x, o, y)

VARIABLES
    view,                \* the frame that is packed: "menu" or "quiz"; "closed"
                         \* once the root window is destroyed
    level,               \* QuizApp.level
    q_index,             \* QuizApp.q_index
    score,               \* QuizApp.score
    attempt,             \* QuizApp.attempt
    first_try_correct,   \* QuizApp.first_try_correct
    second_try_correct,  \* QuizApp.second_try_correct
    q_a,                 \* QuizApp.a
    q_b,                 \* QuizApp.b
    q_op,                \* QuizApp.op
    entry,               \* the text in QuizApp.entry
    entry_focus,         \* whether the entry has the keyboard focus
    awards,              \* how often the question in (a, op, b) has given points
    event                \* the event handled last

qvars == <<view, level, q_index, score, attempt, first_try_correct,
           second_try_correct, q_a, q_b, q_op, entry, entry_focus, awards, event>>

\* QuizApp.__init__
QuizInit ==
    /\ view = "menu"
    /\ level = 1
    /\ q_index = 0
    /\ score = 0
    /\ attempt = 1
    /\ first_try_correct = 0
    /\ second_try_correct = 0
    /\ q_a = 0 /\ q_b = 0 /\ q_op = "+"
    /\ entry = <<>>
    /\ entry_focus = FALSE
    /\ awards = 0
    /\ event = "init"

\* What the user can type into the entry: the right answer to the question
\* in (a, op, b), a wrong one, blanks, a word
Typed ==
    { str(compute(q_a, q_op, q_b)), str(compute(q_a, q_op, q_b) + 1), <<" ">>, <<"x">> }

\* next_question, called with q_index, score and the two counters as the
\* caller left them (aw: the points count of the question, likewise); pair
\* and o are what randomInt and decideOperation return, again is the answer
\* to displayResults' "Play again?"; v is the frame that is packed
next_question(v, q, sc, ftc, stc, aw, pair, o, again) ==
    IF quiz_over(q + 1)
    THEN \* displayResults
         /\ UNCHANGED <<q_a, q_b, q_op, entry, entry_focus>>
         /\ awards' = aw
         /\ IF again
            THEN \* reset_for_new_play, show_menu
                 /\ q_index' = 0 /\ score' = 0 /\ attempt' = 1
                 /\ first_try_correct' = 0 /\ second_try_correct' = 0
                 /\ view' = "menu"
            ELSE \* root.destroy()
                 /\ q_index' = q + 1 /\ score' = sc /\ attempt' = attempt
                 /\ first_try_correct' = ftc /\ second_try_correct' = stc
                 /\ view' = "closed"
    ELSE /\ q_index' = q + 1
         /\ q_a' = swap_operands(pair, o, level')[1]
         /\ q_b' = swap_operands(pair, o, level')[2]
         /\ q_op' = o
         /\ attempt' = 1
         /\ score' = sc /\ first_try_correct' = ftc /\ second_try_correct' = stc
         \* displayProblem
         /\ entry' = <<>>
         /\ entry_focus' = TRUE
         /\ awards' = 0
         /\ view' = v

\* the Start Quiz button of the menu, with the level the radio buttons hold
start_quiz ==
    /\ view = "menu"
    /\ \E l \in DOMAIN DIFFICULTY_BOUNDS :
         \E pair \in randomInt(l), o \in decideOperation :
           /\ level' = l
           /\ next_question("quiz", 0, 0, 0, 0, awards, pair, o, FALSE)
    /\ event' = "start"

\* keys typed while the entry has the focus
type_answer ==
    /\ view # "closed"
    /\ entry_focus
    /\ \E txt \in Typed \ {entry} : entry' = txt
    /\ event' = "type"
    /\ UNCHANGED <<view, level, q_index, score, attempt, first_try_correct,
                   second_try_correct, q_a, q_b, q_op, entry_focus, awards>>

\* the Submit button, or the Return key, which is bound on the root window
submit_answer ==
    /\ view # "closed"
    /\ event' = "submit"
    /\ LET ans == parse_answer(entry)
       IN  IF ans = <<>>
           THEN UNCHANGED <<view, level, q_index, score, attempt, first_try_correct,
                            second_try_correct, q_a, q_b, q_op, entry, entry_focus,
                            awards>>
           ELSE \E pair \in randomInt(level), o \in decideOperation, again \in BOOLEAN :
                  /\ level' = level
                  /\ IF isCorrect(q_a, q_op, q_b, ans[1])
                     THEN IF attempt = 1
                          THEN next_question(view, q_index, score + PTS_FIRST,
                                             first_try_correct + 1,
                                             second_try_correct, awards + 1,
                                             pair, o, again)
                          ELSE next_question(view, q_index, score + PTS_SECOND,
                                             first_try_correct,
                                             second_try_correct + 1, awards + 1,
                                             pair, o, again)
                     ELSE IF attempt = 1
                          THEN /\ attempt' = 2
                               /\ entry' = <<>>
                               /\ entry_focus' = TRUE
                               /\ UNCHANGED <<view, q_index, score, first_try_correct,
                                              second_try_correct, q_a, q_b, q_op,
                                              awards>>
                          ELSE next_question(view, q_index, score,
                                             first_try_correct, second_try_correct,
                                             awards, pair, o, again)

\* the quiz is not running
NoQuiz == QuizInit

(* ====================================================================== *)
(* Random Jokes (Assessment_1/02_alexa_joke.py): the joke list and the      *)
(* stage machine idle, setup_shown, punchline_shown.                       *)
(* ====================================================================== *)

PHRASE ==
    <<"a", "l", "e", "x", "a", " ", "t", "e", "l", "l", " ", "m", "e", " ",
      "a", " ", "j", "o", "k", "e">>

FallbackSetup ==
    <<"W", "h", "y", " ", "d", "i", "d", " ", "t", "h", "e", " ", "c", "h",
      "i", "c", "k", "e", "n", " ", "c", "r", "o", "s", "s", " ", "t", "h",
      "e", " ", "r", "o", "a", "d", "?">>

FallbackPunchline ==
    <<"T", "o", " ", "g", "e", "t", " ", "t", "o", " ", "t", "h", "e", " ",
      "o", "t", "h", "e", "r", " ", "s", "i", "d", "e", ".">>

\* line.split("?", 1): the text before the first "?" and the text after it
split_first(line, sep) ==
    LET k == CHOOSE i \in 1..Len(line) :
                 line[i] = sep /\ \A j \in 1..(i - 1) : line[j] # sep
    IN  <<SubSeq(line, 1, k - 1), SubSeq(line, k + 1, Len(line))>>

\* one line of randomJokes.txt, as load_jokes treats it: the jokes it adds
parse_joke(raw) ==
    LET line == strip(raw)
    IN  IF line = <<>> \/ ~contains(line, <<"?">>) THEN <<>>
        ELSE LET parts == split_first(line, "?")
             IN  << <<strip(parts[1]) \o <<"?">>, strip(parts[2])>> >>

RECURSIVE parse_jokes(_)
parse_jokes(lines) ==
    IF lines = <<>> THEN <<>>
    ELSE parse_joke(Head(lines)) \o parse_jokes(Tail(lines))

\* exists_: does randomJokes.txt exist; text: what it holds
load_jokes(exists_, text) ==
    LET read == IF exists_ THEN parse_jokes(splitlines(text)) ELSE <<>>
    IN  IF read # <<>> THEN read ELSE << <<FallbackSetup, FallbackPunchline>> >>

\* The randomJokes.txt files a session can start from, as lists of lines:
\* an empty file, a file with no line that holds a "?", a file of one joke
\* and a file of three jokes among lines that are skipped
JokeFiles == {
    <<>>,
    << <<"n", "o", " ", "j", "o", "k", "e">>, <<" ">> >>,
    << <<" ", "A", "b", " ", "?", "c", "d", " ">> >>,
    << <<"A", "b", "?", " ", "c", "d">>, <<>>, <<"x", "?", "y", "?", "z">>, <<"n", "o", "n", "e">>, <<"A", "b", "?", "e">> >> }

\* What the user can have typed into the entry
PhraseTexts == {
    <<>>,
    PHRASE,
    <<" ", "A", "l", "e", "x", "a", " ", "T", "e", "l", "l", " ", "M", "e",
      " ", "A", " ", "J", "O", "K", "E", " ">>,
    <<"a", "l", "e", "x", "a", " ", "t", "e", "l", "l", " ", "m", "e", " ",
      "a", " ", "j", "o", "k", "e", "!">>,
    <<"a", "l", "e", "x", "a">> }

\* on_start that takes any text in which the phrase occurs
phrase_matches_within(text) == contains(lower(strip(text)), PHRASE)

\* on_start's test: self.entry.get().strip().lower() == PHRASE
phrase_matches(text) == lower(strip(text)) = PHRASE

\* show_punch that goes back to the idle stage
show_punch_to_idle(cur_, stage_, punch_) ==
    IF cur_ = <<>> THEN <<stage_, punch_>> ELSE <<"idle", cur_[2]>>

\* show_punch: the stage and the text of the punch label it leaves
show_punch(cur_, stage_, punch_) ==
    IF cur_ = <<>> THEN <<stage_, punch_>> ELSE <<"punchline_shown", cur_[2]>>

VARIABLES
    jokes_exists,  \* whether randomJokes.txt exists
    jokes_text,    \* the text of randomJokes.txt
    jokes,         \* App.jokes: the list of (setup, punchline)
    cur,           \* App.cur: <<>> for None, else the joke picked last
    stage,         \* App.stage
    phrase_entry,  \* the text in App.entry
    setup,         \* the text of the setup label
    punch,         \* the text of the punch label
    window,        \* "open", or "closed" once the root window is destroyed
    pressed        \* the event handled last

jvars == <<jokes_exists, jokes_text, jokes, cur, stage, phrase_entry, setup, punch,
           window, pressed>>

\* App.__init__
JokeInit ==
    /\ \/ /\ jokes_exists = FALSE
          /\ jokes_text = <<>>
       \/ /\ jokes_exists = TRUE
          /\ \E lines \in JokeFiles : jokes_text = join(lines, NL)
    /\ jokes = load_jokes(jokes_exists, jokes_text)
    /\ cur = <<>>
    /\ stage = "idle"
    /\ phrase_entry = <<>>
    /\ setup = <<>>
    /\ punch = <<>>
    /\ window = "open"
    /\ pressed = "init"

\* keys typed into the entry
type_phrase ==
    /\ window = "open"
    /\ \E txt \in PhraseTexts \ {phrase_entry} : phrase_entry' = txt
    /\ pressed' = "type"
    /\ UNCHANGED <<jokes_exists, jokes_text, jokes, cur, stage, setup, punch, window>>

\* the Start button, or the Return key, which is bound on the root window;
\* k is the place in the list of the joke random.choice returns
on_start ==
    /\ window = "open"
    /\ pressed' = "start"
    /\ IF stage = "setup_shown"
       THEN /\ stage' = show_punch(cur, stage, punch)[1]
            /\ punch' = show_punch(cur, stage, punch)[2]
            /\ UNCHANGED <<cur, setup>>
       ELSE IF stage \in {"idle", "punchline_shown"} /\ phrase_matches(phrase_entry)
       THEN \* new_joke
            \E k \in 1..Len(jokes) :
                /\ cur' = jokes[k]
                /\ setup' = jokes[k][1]
                /\ punch' = <<>>
                /\ stage' = "setup_shown"
       ELSE UNCHANGED <<cur, stage, setup, punch>>
    /\ UNCHANGED <<jokes_exists, jokes_text, jokes, phrase_entry, window>>

\* the key q, bound on the root window: root.destroy()
quit ==
    /\ window = "open"
    /\ window' = "closed"
    /\ pressed' = "q"
    /\ UNCHANGED <<jokes_exists, jokes_text, jokes, cur, stage, phrase_entry, setup,
                   punch>>

\* the joke program is not running
NoJokes ==
    /\ jokes_exists = FALSE /\ jokes_text = <<>> /\ jokes = <<>> /\ cur = <<>>
    /\ stage = "off" /\ phrase_entry = <<>> /\ setup = <<>> /\ punch = <<>>
    /\ window = "closed" /\ pressed = "off"

(* ====================================================================== *)
(* The programs run one at a time.                                         *)
(* ====================================================================== *)

\* the student manager is not running
NoStudentManager ==
    /\ students = <<>> /\ file_exists = FALSE /\ file_text = <<>>
    /\ table = <<>> /\ op = "off" /\ msg = "" /\ sel = 0 /\ entered = <<>>
    /\ answer = FALSE

Next ==
    \/ view_all /\ UNCHANGED <<gvars, qvars, jvars>>
    \/ view_individual /\ UNCHANGED <<gvars, qvars, jvars>>
    \/ show_highest /\ UNCHANGED <<gvars, qvars, jvars>>
    \/ show_lowest /\ UNCHANGED <<gvars, qvars, jvars>>
    \/ sort_records /\ UNCHANGED <<gvars, qvars, jvars>>
    \/ add_student /\ UNCHANGED <<gvars, qvars, jvars>>
    \/ delete_student /\ UNCHANGED <<gvars, qvars, jvars>>
    \/ update_student /\ UNCHANGED <<gvars, qvars, jvars>>

\* the student manager is started
StudentManagerInit == Init /\ NoRow /\ NoQuiz /\ NoJokes

Spec == StudentManagerInit /\ [][Next]_<<vars, gvars, qvars, jvars>>

GradeNext == read_properties /\ UNCHANGED <<vars, qvars, jvars>>

\* a Student's properties are to be read
RowInit == GradeInit /\ NoStudentManager /\ NoQuiz /\ NoJokes

SpecGrade == RowInit /\ [][GradeNext]_<<vars, gvars, qvars, jvars>>

QuizNext ==
    \/ start_quiz /\ UNCHANGED <<vars, gvars, jvars>>
    \/ type_answer /\ UNCHANGED <<vars, gvars, jvars>>
    \/ submit_answer /\ UNCHANGED <<vars, gvars, jvars>>

\* the quiz is started
QuizAppInit == QuizInit /\ NoStudentManager /\ NoRow /\ NoJokes

SpecQuiz == QuizAppInit /\ [][QuizNext]_<<vars, gvars, qvars, jvars>>

JokeNext ==
    \/ type_phrase /\ UNCHANGED <<vars, gvars, qvars>>
    \/ on_start /\ UNCHANGED <<vars, gvars, qvars>>
    \/ quit /\ UNCHANGED <<vars, gvars, qvars>>

\* the joke program is started
JokeAppInit == JokeInit /\ NoStudentManager /\ NoRow /\ NoQuiz

SpecJokes == JokeAppInit /\ [][JokeNext]_<<vars, gvars, qvars, jvars>>

(* ======================= properties of the roster ===================== *)

Saved == op \in {"add", "update", "delete"} /\ msg \in {"Added", "Updated", "Deleted"}

Mutated == Saved \/ (op = "sort" /\ students # <<>>)

CodeIn(roster, c) == \E i \in 1..Len(roster) : roster[i].code = c

UniqueCodes(roster) ==
    \A i, j \in 1..Len(roster) : roster[i].code = roster[j].code => i = j

RecordSet(roster) == {roster[i] : i \in 1..Len(roster)}

\* the lines of the file after its first line
DataLines(text) == Tail(splitlines(text))

\* the line save is to write for a record: code,name,cw1,cw2,cw3,exam
RecordLine(r) ==
    str(r.code) \o <<",">> \o r.name \o <<",">> \o str(r.cw1) \o <<",">> \o
    str(r.cw2) \o <<",">> \o str(r.cw3) \o <<",">> \o str(r.exam)

\* C1: after every successful add, update, delete and sort the file holds
\* the roster: its data lines are the roster's records, in the roster's order.
\* (sort_records reorders the roster and does not save.)
SavedAfterEveryMutation ==
    Mutated =>
        /\ file_exists
        /\ DataLines(file_text) = [i \in 1..Len(students) |-> RecordLine(students[i])]

\* C2: a step from a roster with distinct codes leads to a roster with
\* distinct codes, whatever handler runs and whether it rejects or not.
UniqueCodesPreserved ==
    [][UniqueCodes(students) => UniqueCodes(students')]_vars

\* C2 witness: a duplicate add was turned down on a roster of distinct codes
UniqueCodesWitness ==
    /\ op = "add" /\ msg = "Duplicate"
    /\ Len(students) >= 2 /\ UniqueCodes(students)

InRange(r) ==
    /\ 1000 <= r.code /\ r.code <= 9999
    /\ r.name # <<>>
    /\ 0 <= r.cw1 /\ r.cw1 <= 20
    /\ 0 <= r.cw2 /\ r.cw2 <= 20
    /\ 0 <= r.cw3 /\ r.cw3 <= 20
    /\ 0 <= r.exam /\ r.exam <= 100

AllInRange(roster) == \A i \in 1..Len(roster) : InRange(roster[i])

\* a name as the edit layer leaves it (trimmed) that holds no comma and no
\* line break
PlainName(name) ==
    /\ strip(name) = name
    /\ \A i \in 1..Len(name) : name[i] \notin {",", NL}

AllPlainNames(roster) == \A i \in 1..Len(roster) : PlainName(roster[i].name)

Reloaded == load_students(file_exists, file_text)

\* C3 as stated: once a roster of distinct codes and in-range fields has been
\* saved, loading the file gives the same set of records.
RoundTripAnyName ==
    (Saved /\ UniqueCodes(students) /\ AllInRange(students))
        => RecordSet(Reloaded) = RecordSet(students)

\* C3 amended: the same, for rosters whose names hold no comma (nor a line
\* break, nor surrounding blanks).
RoundTripPlainNames ==
    (Saved /\ UniqueCodes(students) /\ AllInRange(students) /\ AllPlainNames(students))
        => RecordSet(Reloaded) = RecordSet(students)

\* C3 witness: a saved roster of two or more in-range records with plain names
RoundTripWitness ==
    /\ Saved /\ Len(students) >= 2
    /\ UniqueCodes(students) /\ AllInRange(students) /\ AllPlainNames(students)
    /\ RecordSet(Reloaded) = RecordSet(students)

\* C4: what save wrote starts with a line that is the number of records and
\* goes on with exactly that many lines, the records in the roster's order.
CountLineMatches ==
    Saved =>
        LET lines == splitlines(file_text)
        IN  /\ file_exists
            /\ Len(lines) = Len(students) + 1
            /\ lines[1] = str(Len(students))
            /\ isdigit(lines[1]) /\ int(lines[1]) = Len(lines) - 1
            /\ \A i \in 1..Len(students) : lines[i + 1] = RecordLine(students[i])

\* C4 witness: the last record was deleted and the empty roster was saved
CountLineWitness ==
    /\ op = "delete" /\ msg = "Deleted"
    /\ students = <<>>
    /\ splitlines(file_text) = <<<<"0">>>>

\* C5: a step that reports Duplicate changes neither the roster nor the file;
\* no add is accepted with a code the roster holds, and no update is accepted
\* that changes the code to one the roster holds.
DuplicateRejected ==
    [][/\ (op' \in {"add", "update"} /\ msg' = "Duplicate")
            => /\ students' = students
               /\ file_text' = file_text
               /\ file_exists' = file_exists
       /\ (op' = "add" /\ msg' = "Added")
            => ~CodeIn(students, entered'[1].code)
       /\ (op' = "update" /\ msg' = "Updated")
            => \/ entered'[1].code = students[sel'].code
               \/ ~CodeIn(students, entered'[1].code)]_vars

\* C5 witness: an update to another record's code was turned down
DuplicateWitness ==
    /\ op = "update" /\ msg = "Duplicate"
    /\ Len(students) >= 2

\* C6: an accepted add puts the record at the end of the roster, which grows
\* by one, and looking its code up then gives that record and no other.
AddAppends ==
    [][(op' = "add" /\ msg' = "Added")
         => /\ Len(students') = Len(students) + 1
            /\ students'[Len(students')] = entered'[1]
            /\ SubSeq(students', 1, Len(students)) = students
            /\ find_students(students', str(entered'[1].code)) = entered']_vars

\* C6 witness: a record was added to a roster that held others
AddWitness ==
    /\ op = "add" /\ msg = "Added"
    /\ Len(students) >= 2
    /\ students[Len(students)] = entered[1]

\* C7: an accepted update puts the new record where the selected record was
\* and changes no other record, on every roster a session can reach.
UpdateReplacesSelected ==
    [][(op' = "update" /\ msg' = "Updated")
         => /\ Len(students') = Len(students)
            /\ students'[sel'] = entered'[1]
            /\ \A j \in 1..Len(students) : j # sel' => students'[j] = students[j]]_vars

\* C8: after a confirmed delete of the record with code c no record of the
\* roster has code c, nor has any record loaded from the file, and a lookup
\* of c gives no record with that code.
DeletedNotFound ==
    [][(op' = "delete" /\ msg' = "Deleted")
         => \A c \in {students[sel'].code} :
            \A loaded \in {load_students(file_exists', file_text')} :
            \A found \in {find_students(students', str(c))} :
                /\ ~CodeIn(students', c)
                /\ ~CodeIn(loaded, c)
                /\ ~CodeIn(found, c)]_vars

\* C8 witness: a record was deleted and others are left
DeleteWitness ==
    /\ op = "delete" /\ msg = "Deleted" /\ sel >= 1
    /\ students # <<>>

\* a is b with some elements left out
RECURSIVE IsSubseq(_, _)
IsSubseq(a, b) ==
    IF a = <<>> THEN TRUE
    ELSE IF b = <<>> THEN FALSE
    ELSE IF Head(a) = Head(b) THEN IsSubseq(Tail(a), Tail(b))
    ELSE IsSubseq(a, Tail(b))

\* C9: add, update and delete keep the order of the records they keep: an
\* add keeps the roster as the beginning of the new one, a delete leaves a
\* subsequence, an update changes one position at most.
OrderPreserved ==
    [][/\ (op' = "add" /\ msg' = "Added")
            => SubSeq(students', 1, Len(students)) = students
       /\ (op' = "delete" /\ msg' = "Deleted")
            => IsSubseq(students', students)
       /\ (op' = "update" /\ msg' = "Updated")
            => /\ Len(students') = Len(students)
               /\ \E i \in 1..Len(students) :
                      \A j \in 1..Len(students) : j # i => students'[j] = students[j]]_vars

\* C9 witness: a delete left two or more records
OrderWitness ==
    /\ op = "delete" /\ msg = "Deleted"
    /\ Len(students) >= 2

Occurrences(roster, r) == Cardinality({i \in 1..Len(roster) : roster[i] = r})

WithPercent(roster, p) == SelectSeq(roster, LAMBDA r : total(r) * 100 = p)

\* C10: a sort leaves a permutation of the roster, in non-decreasing order of
\* percent when ascending and non-increasing when descending, and records of
\* equal percent stay in the order they had.
SortStable ==
    [][(op' = "sort" /\ students # <<>>)
         => /\ \A r \in RecordSet(students) \cup RecordSet(students') :
                   Occurrences(students', r) = Occurrences(students, r)
            /\ \A i, j \in 1..Len(students') :
                   i < j => IF answer'
                            THEN total(students'[i]) <= total(students'[j])
                            ELSE total(students'[i]) >= total(students'[j])
            /\ \A r \in RecordSet(students) :
                   WithPercent(students', total(r) * 100)
                       = WithPercent(students, total(r) * 100)]_vars

\* C10 witness: a descending sort of three or more records, two of them
\* different records of equal percent
SortWitness ==
    /\ op = "sort" /\ ~answer
    /\ Len(students) >= 3
    /\ \E i, j \in 1..Len(students) :
           /\ i < j /\ students[i] # students[j]
           /\ total(students[i]) = total(students[j])
    /\ \E i, j \in 1..Len(students) : total(students[i]) # total(students[j])

\* C11: sorting again in the direction of the sort that has just run leaves
\* the record sequence as that sort left it, in either direction.
SortIdempotent ==
    [][(op = "sort" /\ students # <<>> /\ op' = "sort" /\ answer' = answer)
         => students' = students]_vars

\* C11 witness: an ascending sort has left three or more records, two of
\* them different records of equal percent
SortTwiceWitness ==
    /\ op = "sort" /\ answer
    /\ Len(students) >= 3
    /\ \E i, j \in 1..Len(students) :
           /\ i < j /\ students[i] # students[j]
           /\ total(students[i]) = total(students[j])
    /\ \E i, j \in 1..Len(students) : total(students[i]) < total(students[j])

Marks(r) == r.cw1 + r.cw2 + r.cw3 + r.exam

\* the first place of the roster whose record has the most (least) marks
FirstMax(roster) ==
    CHOOSE i \in 1..Len(roster) :
        /\ \A j \in 1..Len(roster) : Marks(roster[j]) <= Marks(roster[i])
        /\ \A j \in 1..Len(roster) : Marks(roster[j]) = Marks(roster[i]) => i <= j

FirstMin(roster) ==
    CHOOSE i \in 1..Len(roster) :
        /\ \A j \in 1..Len(roster) : Marks(roster[j]) >= Marks(roster[i])
        /\ \A j \in 1..Len(roster) : Marks(roster[j]) = Marks(roster[i]) => i <= j

\* C12: show_highest (show_lowest) shows the first record, in the roster's
\* order, of maximum (minimum) total; on an empty roster it shows nothing new;
\* the roster and the file stay as they are.
HighestLowestFirstBest ==
    [][(op' \in {"show_highest", "show_lowest"})
         => /\ students' = students
            /\ file_exists' = file_exists /\ file_text' = file_text
            /\ IF students = <<>>
               THEN table' = table
               ELSE table' = <<students[IF op' = "show_highest"
                                        THEN FirstMax(students)
                                        ELSE FirstMin(students)]>>]_vars

\* C12 witness: show_highest has run on a roster where two different records
\* share the maximum total and a third has less
HighestWitness ==
    /\ op = "show_highest"
    /\ Len(students) >= 3
    /\ Len(table) = 1
    /\ \E i, j \in 1..Len(students) :
           /\ i < j /\ students[i] # students[j]
           /\ Marks(students[i]) = Marks(students[j])
           /\ \A k \in 1..Len(students) : Marks(students[k]) <= Marks(students[i])
           /\ table[1] = students[i]
    /\ \E k \in 1..Len(students) : Marks(students[k]) < Marks(table[1])

\* the fields of a line, as text
FieldsOf(line) ==
    LET parts == split(strip(line), ",")
    IN  [k \in 1..Len(parts) |-> strip(parts[k])]

\* a line of 6 comma-separated fields with integers in fields 1 and 3..6
WellFormedLine(line) ==
    LET f == FieldsOf(line)
    IN  /\ Len(f) = 6
        /\ \A k \in {1, 3, 4, 5, 6} : IsIntText(f[k])

RecordOfLine(line) ==
    LET f == FieldsOf(line)
    IN  [code |-> int(f[1]), name |-> f[2], cw1 |-> int(f[3]), cw2 |-> int(f[4]),
         cw3 |-> int(f[5]), exam |-> int(f[6])]

RECURSIVE RecordsOfLines(_)
RecordsOfLines(lines) ==
    IF lines = <<>> THEN <<>>
    ELSE (IF WellFormedLine(Head(lines)) THEN <<RecordOfLine(Head(lines))>> ELSE <<>>)
             \o RecordsOfLines(Tail(lines))

\* C13: loading a file gives the records of its well-formed lines, in file
\* order, whatever other lines stand between them and whatever its count
\* line says; the roster a session starts with is that.
LoadPermissive ==
    /\ file_exists => load_students(TRUE, file_text) = RecordsOfLines(splitlines(file_text))
    /\ (op = "init" /\ file_exists) => students = RecordsOfLines(splitlines(file_text))

\* C13 witness: a session has started from a file that declares 2 records and
\* holds 3 well-formed lines among blank and malformed ones
LoadWitness ==
    /\ op = "init" /\ file_exists
    /\ Head(splitlines(file_text)) = <<"2">>
    /\ Len(students) = 3
    /\ Len(splitlines(file_text)) > 4

\* C14: while there is no file the roster is empty, the session has started
\* with the missing file reported, and every operation leaves the roster and
\* the table empty, except the first accepted add, which writes a file of
\* count line 1 and the line of the one record added.
MissingFileHandled ==
    [][~file_exists
         => /\ students = <<>>
            /\ op = "init" => msg = "File Missing"
            /\ ~file_exists' => students' = <<>> /\ table' = <<>>
            /\ file_exists' => /\ op' = "add" /\ msg' = "Added"
                               /\ Len(entered') = 1
                               /\ students' = entered'
                               /\ splitlines(file_text')
                                      = << <<"1">>, RecordLine(entered'[1]) >>]_vars

\* C14 witness: a session that started without a file has gone on, an add
\* has been turned down and there is still no file
MissingFileWitness ==
    /\ ~file_exists
    /\ op = "add" /\ msg = "Invalid"
    /\ students = <<>>

\* C15: every record of the roster is within the documented ranges, and so
\* are its coursework total and its total.
RangesAlways ==
    \A i \in 1..Len(students) :
        /\ InRange(students[i])
        /\ 0 <= students[i].cw1 + students[i].cw2 + students[i].cw3
        /\ students[i].cw1 + students[i].cw2 + students[i].cw3 <= 60
        /\ 0 <= Marks(students[i]) /\ Marks(students[i]) <= 160

\* C17: an accepted delete takes exactly the selected record out of the roster.
DeleteRemovesOne ==
    [][(op' = "delete" /\ msg' = "Deleted")
         => /\ Len(students') = Len(students) - 1
            /\ students' = SubSeq(students, 1, sel' - 1)
                               \o SubSeq(students, sel' + 1, Len(students))]_vars

(* ======================== properties of the grade ===================== *)

\* C16: what is read of a record within the valid ranges is the total
\* cw1 + cw2 + cw3 + exam and the grade that total has: A from 112, B from 96
\* to 111, C from 80 to 95, D from 64 to 79, F below 64.
GradeByThresholds ==
    (row # <<>> /\ InRange(row_student))
        => LET t == Marks(row_student)
           IN  /\ row[1] = t
               /\ row[2] = "A" <=> t >= 112
               /\ row[2] = "B" <=> (96 <= t /\ t < 112)
               /\ row[2] = "C" <=> (80 <= t /\ t < 96)
               /\ row[2] = "D" <=> (64 <= t /\ t < 80)
               /\ row[2] = "F" <=> t < 64

\* C16 witness: the properties of (1001, Alice, 18, 19, 20, 90) are read:
\* total 147 and grade A
GradeWitness ==
    /\ row_student = [code |-> 1001, name |-> <<"A", "l", "i", "c", "e">>,
                      cw1 |-> 18, cw2 |-> 19, cw3 |-> 20, exam |-> 90]
    /\ row = <<147, "A">>

(* ======================== properties of the quiz ====================== *)

\* the answer to the question in (a, op, b)
Answer == IF q_op = "+" THEN q_a + q_b ELSE q_a - q_b

\* the entry holds an integer, and so a submit is graded
Graded == IsIntText(entry)

\* C18: the score is 10 for each first-try-correct and 5 for each
\* second-try-correct, at most 10 questions have given points and the score
\* is within 0..100; a submit raises the score only for a question that has
\* not given points yet: by 10 on attempt 1 and by 5 on attempt 2, for the
\* right answer only.
TwoAttemptScoring ==
    [][/\ score' = 10 * first_try_correct' + 5 * second_try_correct'
       /\ first_try_correct' + second_try_correct' <= 10
       /\ 0 <= score' /\ score' <= 100
       /\ (event' = "submit" /\ score' > score)
              => /\ awards = 0
                 /\ Graded /\ int(entry) = Answer
                 /\ IF attempt = 1
                    THEN /\ score' = score + 10
                         /\ first_try_correct' = first_try_correct + 1
                         /\ second_try_correct' = second_try_correct
                    ELSE /\ score' = score + 5
                         /\ first_try_correct' = first_try_correct
                         /\ second_try_correct' = second_try_correct + 1]_qvars

\* C19: Start Quiz shows the quiz with question 1; while the quiz is shown
\* the question number is within 1..10 and only ever goes up by one; the quiz
\* view is left, for the results, only by a graded submit that resolves
\* question 10 (the right answer, or a wrong one on attempt 2); and every
\* graded submit in the quiz view either shows the results or moves on, to
\* attempt 2 or to the next question, so that at most 20 of them (two for each
\* of 10 questions: 2 * q_index + attempt goes from 3 up to at most 22) come
\* before the results.
QuizFlow ==
    [][/\ event' = "start"
              => view = "menu" /\ view' = "quiz" /\ q_index' = 1 /\ attempt' = 1
       /\ view' = "quiz" => q_index' \in 1..10 /\ attempt' \in {1, 2}
       /\ (view = "quiz" /\ view' = "quiz" /\ q_index' # q_index)
              => q_index' = q_index + 1
       /\ (view = "quiz" /\ view' # "quiz")
              => /\ event' = "submit"
                 /\ q_index = 10
                 /\ Graded
                 /\ int(entry) = Answer \/ attempt = 2
       /\ (view = "quiz" /\ event' = "submit" /\ Graded /\ q_index = 10
             /\ (int(entry) = Answer \/ attempt = 2))
              => view' # "quiz"
       /\ (view = "quiz" /\ event' = "submit" /\ Graded /\ view' = "quiz")
              => 2 * q_index' + attempt' > 2 * q_index + attempt]_qvars

\* C19 witness: the results have been shown and the window closed after ten
\* questions that were each answered wrongly twice, 20 graded submits
QuizFlowWitness ==
    /\ view = "closed"
    /\ event = "submit"
    /\ q_index = 11
    /\ attempt = 2
    /\ score = 0 /\ first_try_correct = 0 /\ second_try_correct = 0

\* C20: a submit of an entry that holds no integer (nothing, blanks, a word)
\* leaves score, q_index, attempt, first_try_correct, second_try_correct and
\* the question (a, op, b) as they are.
InvalidConsumesNothing ==
    [][(event' = "submit" /\ ~Graded)
         => /\ score' = score /\ q_index' = q_index /\ attempt' = attempt
            /\ first_try_correct' = first_try_correct
            /\ second_try_correct' = second_try_correct
            /\ q_a' = q_a /\ q_op' = q_op /\ q_b' = q_b]_qvars

\* C20 witness: a word has been submitted on attempt 2 of question 3, with
\* one earlier question answered at the second attempt and one at the first
InvalidWitness ==
    /\ view = "quiz"
    /\ event = "submit"
    /\ entry = <<"x">>
    /\ q_index = 3 /\ attempt = 2
    /\ score = 15

\* the interval the operands of a level are drawn from
LevelInterval(l) == IF l = 1 THEN 1..9 ELSE IF l = 2 THEN 10..99 ELSE 1000..9999

\* C21: once a question has been posed, both operands of the question in
\* (a, op, b) lie in the interval of the level, and at levels 1 and 2 a
\* subtraction has a >= b and the answer to the question is not negative.
OperandsInLevel ==
    q_index >= 1
        => /\ q_a \in LevelInterval(level) /\ q_b \in LevelInterval(level)
           /\ (level \in {1, 2} /\ q_op = "-") => q_a >= q_b
           /\ level \in {1, 2} => Answer >= 0

\* C21 witness: question 10 of a Moderate quiz is the subtraction 99 - 10,
\* which the two drawn operands give in one order only
OperandsWitness ==
    /\ view = "quiz" /\ level = 2
    /\ q_index = 10
    /\ q_op = "-" /\ q_a = 99 /\ q_b = 10

\* C22: a submit while the menu is shown leaves score, q_index, attempt,
\* first_try_correct and second_try_correct as they are and poses no question.
MenuSubmitIgnored ==
    [][(view = "menu" /\ event' = "submit")
         => /\ score' = score /\ q_index' = q_index /\ attempt' = attempt
            /\ first_try_correct' = first_try_correct
            /\ second_try_correct' = second_try_correct
            /\ q_a' = q_a /\ q_op' = q_op /\ q_b' = q_b]_qvars

(* ======================= properties of the jokes ====================== *)

InList(joke) == \E k \in 1..Len(jokes) : jokes[k] = joke

\* C23: the stage changes from idle to setup_shown, from setup_shown to
\* punchline_shown and from punchline_shown to setup_shown only; off the idle
\* stage the current joke is a joke of the list and the setup shown is its
\* setup; the punch label is empty until the stage is punchline_shown, it is
\* filled only by a step from setup_shown, and then holds the punchline of
\* the current joke.
StageOrder ==
    [][/\ stage' # stage
              => <<stage, stage'>> \in { <<"idle", "setup_shown">>,
                                         <<"setup_shown", "punchline_shown">>,
                                         <<"punchline_shown", "setup_shown">> }
       /\ stage' # "idle" => cur' # <<>> /\ InList(cur') /\ setup' = cur'[1]
       /\ stage' # "punchline_shown" => punch' = <<>>
       /\ stage' = "punchline_shown" => punch' = cur'[2]
       /\ punch' # punch /\ punch' # <<>> => stage = "setup_shown" /\ cur' = cur]_jvars

\* C23 witness: of two jokes with the same setup the second has been picked
\* and its punchline revealed
StageWitness ==
    /\ stage = "punchline_shown" /\ pressed = "start"
    /\ Len(jokes) = 3
    /\ cur = jokes[3] /\ jokes[1][1] = jokes[3][1] /\ jokes[1][2] # jokes[3][2]
    /\ setup = jokes[3][1] /\ punch = jokes[3][2]

\* no line of randomJokes.txt holds a "?", or there is no such file
NoJokeLine ==
    \/ ~jokes_exists
    \/ \A i \in 1..Len(jokes_text) : jokes_text[i] # "?"

\* C24: the list of jokes is never empty, and is the fallback joke alone
\* when the file is missing or has no line with a "?"; a Start/Enter in the
\* stage idle or punchline_shown shows the setup of a joke of the list when
\* the entry, stripped and in lower case, is the phrase, and with any other
\* text leaves the stage, the current joke, the setup and the punchline as
\* they are.
PhraseRequired ==
    [][/\ jokes # <<>> /\ jokes' = jokes
       /\ NoJokeLine => jokes = << <<FallbackSetup, FallbackPunchline>> >>
       /\ (pressed' = "start" /\ stage \in {"idle", "punchline_shown"})
              => IF lower(strip(phrase_entry)) = PHRASE
                 THEN /\ stage' = "setup_shown"
                      /\ InList(cur') /\ setup' = cur'[1] /\ punch' = <<>>
                 ELSE /\ stage' = stage /\ cur' = cur
                      /\ setup' = setup /\ punch' = punch]_jvars

\* C24 witness: with no file and so the fallback joke, after its punchline
\* Start has been pressed on a text that only begins with the phrase
PhraseWitness ==
    /\ ~jokes_exists
    /\ stage = "punchline_shown" /\ pressed = "start"
    /\ punch = FallbackPunchline
    /\ phrase_entry = PHRASE \o <<"!">>

====
